---- MODULE Spec2Model ----
(***************************************************************************)
(* snap-drop: upload placement and metadata consistency.                   *)
(* The upload, delete and file-serving handlers of app.py and the          *)
(* migration tool of migrate_existing_files.py, as one state machine over  *)
(* the metadata file, the local upload tree and the remote bucket.         *)
(*                                                                         *)
(* Text (filenames, uploader names) is a sequence of one-character         *)
(* strings.  A character outside ASCII is written by its code point        *)
(* ("U+65E5").  None is <<>> for text and path valued fields and NoSize    *)
(* for file_size.                                                          *)
(***************************************************************************)
EXTENDS Integers, Sequences, FiniteSets, TLC

(***************************************************************************)
(* Bounds of the model.                                                    *)
(***************************************************************************)
MaxFiles == 2
MaxIds == 2
MaxClock == 1
MaxLegacy == 2
MaxRuns == 2
MaxNameLen == 3

(***************************************************************************)
(* Text helpers.                                                           *)
(***************************************************************************)
LowerChars == <<"a", "b", "c", "d", "e", "f", "g", "h", "i", "j", "k", "l", "m",
                "n", "o", "p", "q", "r", "s", "t", "u", "v", "w", "x", "y", "z">>
UpperChars == <<"A", "B", "C", "D", "E", "F", "G", "H", "I", "J", "K", "L", "M",
                "N", "O", "P", "Q", "R", "S", "T", "U", "V", "W", "X", "Y", "Z">>
DigitChars == <<"0", "1", "2", "3", "4", "5", "6", "7", "8", "9">>

Range(s) == {s[i] : i \in 1..Len(s)}

IndexOf(s, c) == CHOOSE i \in 1..Len(s) : s[i] = c

\* str.lower() on one character
LowerChar(c) == IF c \in Range(UpperChars) THEN LowerChars[IndexOf(UpperChars, c)] ELSE c

\* str.lower()
Lower(s) == [i \in 1..Len(s) |-> LowerChar(s[i])]

WhiteSpace == {" "}

RECURSIVE LStrip(_, _)
LStrip(s, chars) ==
    IF s # <<>> /\ Head(s) \in chars THEN LStrip(Tail(s), chars) ELSE s

RECURSIVE RStrip(_, _)
RStrip(s, chars) ==
    IF s # <<>> /\ s[Len(s)] \in chars THEN RStrip(SubSeq(s, 1, Len(s) - 1), chars) ELSE s

\* str.strip(chars)
StripChars(s, chars) == RStrip(LStrip(s, chars), chars)

\* str.strip()
Strip(s) == StripChars(s, WhiteSpace)

\* "." in filename
HasDot(s) == "." \in Range(s)

LastDot(s) == CHOOSE i \in 1..Len(s) : s[i] = "." /\ \A j \in (i + 1)..Len(s) : s[j] # "."

\* filename.rsplit(".", 1)[1], defined when HasDot(s)
AfterLastDot(s) == SubSeq(s, LastDot(s) + 1, Len(s))

\* unicodedata.normalize("NFKD", c).encode("ascii", "ignore"): an accented
\* letter keeps its base letter, any other non-ASCII character is dropped
AsciiFold(c) ==
    IF c = "U+00E9" THEN <<"e">>
    ELSE IF c = "U+65E5" THEN <<>>
    ELSE <<c>>

RECURSIVE FoldAll(_)
FoldAll(s) == IF s = <<>> THEN <<>> ELSE AsciiFold(Head(s)) \o FoldAll(Tail(s))

\* filename.replace(os.sep, " ")
ReplaceSep(s) == [i \in 1..Len(s) |-> IF s[i] = "/" THEN " " ELSE s[i]]

\* "_".join(filename.split()): runs of white space become one "_", white
\* space at either end disappears
RECURSIVE JoinWords(_)
JoinWords(s) ==
    IF s = <<>> THEN <<>>
    ELSE IF Head(s) \in WhiteSpace
         THEN LET rest == LStrip(s, WhiteSpace)
              IN  IF rest = <<>> THEN <<>> ELSE <<"_">> \o JoinWords(rest)
         ELSE <<Head(s)>> \o JoinWords(Tail(s))

SafeChars == Range(LowerChars) \cup Range(UpperChars) \cup Range(DigitChars) \cup {"_", ".", "-"}

\* _filename_ascii_strip_re.sub("", s)
RECURSIVE KeepSafe(_)
KeepSafe(s) ==
    IF s = <<>> THEN <<>>
    ELSE (IF Head(s) \in SafeChars THEN <<Head(s)>> ELSE <<>>) \o KeepSafe(Tail(s))

\* werkzeug.utils.secure_filename
secure_filename(s) ==
    StripChars(KeepSafe(JoinWords(LStrip(ReplaceSep(FoldAll(s)), WhiteSpace))), {".", "_"})

\* s.replace(" ", "-").replace("_", "-")
ReplaceHyphen(s) == [i \in 1..Len(s) |-> IF s[i] \in {" ", "_"} THEN "-" ELSE s[i]]

\* one pass of s.replace("--", "-"), left to right, non-overlapping
RECURSIVE ReplaceDouble(_)
ReplaceDouble(s) ==
    IF Len(s) < 2 THEN s
    ELSE IF s[1] = "-" /\ s[2] = "-"
         THEN <<"-">> \o ReplaceDouble(SubSeq(s, 3, Len(s)))
         ELSE <<s[1]>> \o ReplaceDouble(Tail(s))

HasDouble(s) == \E i \in 1..(Len(s) - 1) : s[i] = "-" /\ s[i + 1] = "-"

\* while "--" in sanitized: sanitized = sanitized.replace("--", "-")
RECURSIVE CollapseHyphens(_)
CollapseHyphens(s) == IF HasDouble(s) THEN CollapseHyphens(ReplaceDouble(s)) ELSE s

FallbackName == <<"u", "s", "e", "r">>

sanitize_folder_name(name) ==
    LET sanitized == StripChars(CollapseHyphens(ReplaceHyphen(secure_filename(name))), {"-"})
    IN  IF sanitized # <<>> THEN sanitized ELSE FallbackName

ImageExtensions == { <<"j", "p", "g">>, <<"j", "p", "e", "g">>, <<"p", "n", "g">>,
                     <<"g", "i", "f">>, <<"w", "e", "b", "p">>, <<"b", "m", "p">>,
                     <<"t", "i", "f", "f">> }
VideoExtensions == { <<"m", "p", "4">>, <<"a", "v", "i">>, <<"m", "o", "v">>,
                     <<"w", "m", "v">>, <<"f", "l", "v">>, <<"w", "e", "b", "m">>,
                     <<"m", "k", "v">>, <<"3", "g", "p">> }
ALLOWED_EXTENSIONS == ImageExtensions \cup VideoExtensions

allowed_file(filename) ==
    HasDot(filename) /\ Lower(AfterLastDot(filename)) \in ALLOWED_EXTENSIONS

get_file_type(filename) ==
    LET ext == Lower(AfterLastDot(filename))
    IN  IF ext \in ImageExtensions THEN "image"
        ELSE IF ext \in VideoExtensions THEN "video"
        ELSE "unknown"

(***************************************************************************)
(* State.                                                                  *)
(***************************************************************************)
VARIABLES
    env,          \* deployment configuration and permissions, fixed at start
    metaFile,     \* METADATA_FILE on disk
    localBlobs,   \* files under UPLOAD_FOLDER other than the metadata file
    s3Blobs,      \* object keys in the bucket
    dirs,         \* folders created under UPLOAD_FOLDER
    backups,      \* metadata backup files, oldest first
    clock,        \* the time of day, in ticks
    nextId,       \* the next id uuid4 hands out
    proc,         \* per request worker: position and locals of its handler
    mig,          \* position and locals of the migration tool
    call          \* a helper called on its own: argument and results

vars == <<env, metaFile, localBlobs, s3Blobs, dirs, backups, clock, nextId, proc, mig, call>>

stores == <<metaFile, localBlobs, s3Blobs, dirs, backups>>

Workers == {"w1", "w2"}

NoFolder == <<>>
NoUrl == <<>>
NoSize == -1
NoRecord == [none |-> TRUE]
NoCall == [pc |-> "none", name |-> <<>>, sanitized |-> <<>>, again |-> <<>>]

\* sub-second resolution of datetime.now(): strftime("%Y%m%d-%H%M%S") drops it
TicksPerSecond == 2

\* app.py resets USE_S3 when no bucket is configured
AppUseS3 == env.USE_S3 /\ env.S3_BUCKET

\* an object key "snap-drop-uploads/<folder>/<stored_name>", or
\* "snap-drop-uploads/<stored_name>" when folder is NoFolder
S3Key(folder, stored_name) == <<"snap-drop-uploads", folder, stored_name>>

\* f"https://{S3_BUCKET}.s3.{S3_REGION}.amazonaws.com/{s3_key}"
S3Url(s3_key) == <<"https", s3_key>>

\* os.path.join(UPLOAD_FOLDER, folder, stored_name), or
\* os.path.join(UPLOAD_FOLDER, stored_name) when folder is NoFolder
LocalPath(folder, stored_name) == <<folder, stored_name>>

LocalExists(path) == \E b \in localBlobs : b.path = path

GetSize(path) == (CHOOSE b \in localBlobs : b.path = path).size

RemoveLocal(blobs, path) == {b \in blobs : b.path # path}

(***************************************************************************)
(* Metadata store: load_metadata and save_metadata.                        *)
(* The file is the sequence of record texts written so far; closed says    *)
(* that the text is a whole JSON document.                                 *)
(***************************************************************************)
Junk == [junk |-> TRUE]

NoFile == [exists |-> FALSE, recs |-> <<>>, closed |-> FALSE]

WholeFile(records) == [exists |-> TRUE, recs |-> records, closed |-> TRUE]

\* json.load succeeds
Parseable(file) ==
    ~file.exists \/ (file.closed /\ \A i \in 1..Len(file.recs) : file.recs[i] # Junk)

\* load_metadata(), defined when Parseable(file)
load_metadata(file) == IF file.exists THEN file.recs ELSE <<>>

\* open(METADATA_FILE, "w")
OpenTruncate == [exists |-> TRUE, recs |-> <<>>, closed |-> FALSE]

\* the write of the record at offset pos (pos records precede it)
WriteAt(file, pos, rec) ==
    [file EXCEPT !.recs =
        [i \in 1..(IF Len(file.recs) > pos THEN Len(file.recs) ELSE pos + 1) |->
            IF i = pos + 1 THEN rec
            ELSE IF i <= Len(file.recs) THEN file.recs[i]
            ELSE Junk],
        !.closed = FALSE]

CloseAtEmptied(file, pos) == [exists |-> TRUE, recs |-> <<>>, closed |-> TRUE]

\* the write of the closing bracket at offset pos, then close()
CloseAt(file, pos) ==
    IF Len(file.recs) = pos THEN [file EXCEPT !.closed = TRUE]
    ELSE WriteAt(file, pos, Junk)

(***************************************************************************)
(* Path resolver.                                                          *)
(***************************************************************************)
Seconds(t) == t \div TicksPerSecond

generate_upload_folder(uploader_name, upload_time) ==
    <<sanitize_folder_name(uploader_name), Seconds(upload_time)>>

(***************************************************************************)
(* Requests and responses.                                                 *)
(***************************************************************************)
FilePool == {
    [filename |-> <<"a", " ", "b", ".", "J", "P", "G">>, size |-> 2],
    [filename |-> <<"c", ".", "t", "x", "t">>, size |-> 1],
    [filename |-> <<".", "m", "p", "4">>, size |-> 1],
    [filename |-> <<>>, size |-> 0] }

\* the "files" parts of a request; <<>> is a request without such a part
FileLists == UNION {[1..n -> FilePool] : n \in 0..MaxFiles}

NamePool == { <<" ">>, <<"a", " ">> }

EmailPool == { <<"e">> }

Response(status, error) == [status |-> status, error |-> error, files |-> <<>>, location |-> <<>>]

NoResponse == Response(0, "")

Idle == [pc |-> "idle", op |-> "none",
         name |-> <<>>, email |-> <<>>, files |-> <<>>, file_id |-> 0,
         loaded |-> <<>>, metadata |-> <<>>,
         upload_time |-> 0, folder_path |-> NoFolder,
         idx |-> 0, uploaded_files |-> <<>>,
         file_to_delete |-> NoRecord, pos |-> 0,
         resp |-> NoResponse]

Finish(w, resp) == [w EXCEPT !.pc = "done", !.resp = resp]

Set(p, w) == proc' = [proc EXCEPT ![p] = w]

Me(p) == proc[p]

(***************************************************************************)
(* upload_files                                                            *)
(***************************************************************************)
NameGivenUntrimmed(name) == name # <<>>

\* if not name
NameGiven(name) == Strip(name) # <<>>

\* "files" in request.files and not all(f.filename == "" for f in files)
FilesGiven(files) == files # <<>> /\ \E i \in 1..Len(files) : files[i].filename # <<>>

\* the request as parsed from the form
UploadRequest(name, email, files) ==
    [Idle EXCEPT !.op = "upload", !.name = Strip(name), !.email = Strip(email),
                 !.files = files]

\* lines 233-244: the request is turned away before anything is touched
UploadReject(p) ==
    /\ Me(p).pc = "idle"
    /\ \E name \in NamePool, email \in EmailPool, files \in FileLists :
          /\ ~(NameGiven(name) /\ FilesGiven(files))
          /\ Set(p, Finish(UploadRequest(name, email, files),
                           Response(400, IF files = <<>> THEN "No files selected"
                                         ELSE IF ~NameGiven(name) THEN "Name is required"
                                         ELSE "No files selected")))
    /\ UNCHANGED <<call, env, metaFile, localBlobs, s3Blobs, dirs, backups, clock, nextId, mig>>

\* lines 246-254: load the collection, name the batch's folder and create it
UploadBegin(p) ==
    /\ Me(p).pc = "idle"
    /\ nextId <= MaxIds
    /\ \E name \in NamePool, email \in EmailPool, files \in FileLists, now \in clock..MaxClock :
          /\ NameGiven(name) /\ FilesGiven(files)
          /\ IF Parseable(metaFile)
             THEN LET folder_path == generate_upload_folder(Strip(name), now)
                  IN  /\ Set(p, [UploadRequest(name, email, files) EXCEPT
                                    !.pc = "upload_loop",
                                    !.loaded = load_metadata(metaFile),
                                    !.metadata = load_metadata(metaFile),
                                    !.upload_time = now,
                                    !.folder_path = folder_path,
                                    !.idx = 1])
                      /\ dirs' = dirs \cup {folder_path}
                      /\ clock' = now
             ELSE /\ Set(p, Finish(UploadRequest(name, email, files),
                                   Response(500, "JSONDecodeError")))
                  /\ UNCHANGED <<dirs, clock>>
    /\ UNCHANGED <<call, env, metaFile, localBlobs, s3Blobs, backups, nextId, mig>>

\* if file and file.filename and allowed_file(file.filename)
Accepted(file) == file.filename # <<>> /\ allowed_file(file.filename)

\* lines 280-292
FileMetadata(file_id, original_filename, stored_filename, folder_path, upload_time, name, email, file_size, s3_url) ==
    [id |-> file_id,
     original_name |-> original_filename,
     stored_name |-> stored_filename,
     folder_path |-> folder_path,
     full_path |-> <<folder_path, stored_filename>>,
     upload_time |-> upload_time,
     uploader_name |-> name,
     uploader_email |-> email,
     file_type |-> get_file_type(original_filename),
     file_size |-> file_size,
     s3_url |-> s3_url]

RecordedUrlAlways(put_ok, s3_key) == S3Url(s3_key)

\* lines 269-275: the URL is recorded only for a put that succeeded
RecordedUrl(put_ok, s3_key) == IF put_ok THEN S3Url(s3_key) ELSE NoUrl

\* lines 256-295, one turn of the loop over a file the batch accepts: the blob
\* is saved locally, put to the bucket when that is configured (the put may
\* fail), and the record is appended to the collection in memory
UploadFile(p) ==
    LET w == Me(p)
        file == w.files[w.idx]
        file_id == nextId
        original_filename == secure_filename(file.filename)
        ext == Lower(AfterLastDot(original_filename))
        stored_filename == <<file_id, ext>>
        file_path == LocalPath(w.folder_path, stored_filename)
        s3_key == S3Key(w.folder_path, stored_filename)
    IN  /\ w.pc = "upload_loop"
        /\ w.idx <= Len(w.files)
        /\ Accepted(file)
        /\ HasDot(original_filename)
        /\ nextId' = nextId + 1
        /\ \E put_ok \in {b \in BOOLEAN : AppUseS3 \/ ~b} :
              /\ localBlobs' = IF put_ok THEN RemoveLocal(localBlobs, file_path)
                               ELSE RemoveLocal(localBlobs, file_path)
                                        \cup {[path |-> file_path, size |-> file.size]}
              /\ s3Blobs' = IF put_ok THEN s3Blobs \cup {s3_key} ELSE s3Blobs
              /\ Set(p, [w EXCEPT
                    !.metadata = Append(@,
                        FileMetadata(file_id, original_filename, stored_filename,
                                     w.folder_path, w.upload_time, w.name, w.email,
                                     IF ~AppUseS3 THEN file.size ELSE NoSize,
                                     RecordedUrl(put_ok, s3_key))),
                    !.uploaded_files = Append(@, original_filename),
                    !.idx = @ + 1])
        /\ UNCHANGED <<call, env, metaFile, dirs, backups, clock, mig>>

\* line 261: the sanitized name of an accepted file has no "." left, so
\* rsplit(".", 1)[1] raises IndexError and the request ends in a server error
UploadFileIndexError(p) ==
    LET w == Me(p)
        file == w.files[w.idx]
    IN  /\ w.pc = "upload_loop"
        /\ w.idx <= Len(w.files)
        /\ Accepted(file)
        /\ ~HasDot(secure_filename(file.filename))
        /\ nextId' = nextId + 1
        /\ Set(p, Finish(w, Response(500, "IndexError")))
        /\ UNCHANGED <<call, env, metaFile, localBlobs, s3Blobs, dirs, backups, clock, mig>>

\* line 257: a file with an empty name or a disallowed extension is passed over
UploadSkip(p) ==
    LET w == Me(p)
    IN  /\ w.pc = "upload_loop"
        /\ w.idx <= Len(w.files)
        /\ ~Accepted(w.files[w.idx])
        /\ Set(p, [w EXCEPT !.idx = @ + 1])
        /\ UNCHANGED <<call, env, metaFile, localBlobs, s3Blobs, dirs, backups, clock, nextId, mig>>

\* lines 297-314: after the loop
UploadEnd(p) ==
    LET w == Me(p)
    IN  /\ w.pc = "upload_loop"
        /\ w.idx > Len(w.files)
        /\ IF w.uploaded_files # <<>>
           THEN Set(p, [w EXCEPT !.pc = "save"])
           ELSE Set(p, Finish(w, Response(400, "No valid files uploaded")))
        /\ UNCHANGED <<call, env, metaFile, localBlobs, s3Blobs, dirs, backups, clock, nextId, mig>>

(***************************************************************************)
(* save_metadata, as the handlers call it on their last line but one:      *)
(* open(METADATA_FILE, "w") truncates the file, json.dump writes the       *)
(* records through a buffer that reaches the disk piece by piece, and      *)
(* leaving the with block closes the document.                             *)
(***************************************************************************)
SaveOpen(p) ==
    LET w == Me(p)
    IN  /\ w.pc = "save"
        /\ metaFile' = OpenTruncate
        /\ Set(p, [w EXCEPT !.pc = "save_write", !.pos = 0])
        /\ UNCHANGED <<call, env, localBlobs, s3Blobs, dirs, backups, clock, nextId, mig>>

SaveWrite(p) ==
    LET w == Me(p)
    IN  /\ w.pc = "save_write"
        /\ w.pos < Len(w.metadata)
        /\ metaFile' = WriteAt(metaFile, w.pos, w.metadata[w.pos + 1])
        /\ Set(p, [w EXCEPT !.pos = @ + 1])
        /\ UNCHANGED <<call, env, localBlobs, s3Blobs, dirs, backups, clock, nextId, mig>>

\* lines 299-304 and 407: what the handler answers once the save returned
Saved(w) ==
    IF w.op = "upload"
    THEN [Response(200, "") EXCEPT !.files = w.uploaded_files]
    ELSE Response(200, "")

SaveClose(p) ==
    LET w == Me(p)
    IN  /\ w.pc = "save_write"
        /\ w.pos = Len(w.metadata)
        /\ metaFile' = CloseAt(metaFile, w.pos)
        /\ Set(p, Finish(w, Saved(w)))
        /\ UNCHANGED <<call, env, localBlobs, s3Blobs, dirs, backups, clock, nextId, mig>>

(***************************************************************************)
(* delete_file                                                             *)
(***************************************************************************)
DeleteRequest(file_id) == [Idle EXCEPT !.op = "delete", !.file_id = file_id]

HasId(metadata, file_id) == \E i \in 1..Len(metadata) : metadata[i].id = file_id

\* lines 372-375: the index of the first record with this id
FindId(metadata, file_id) ==
    CHOOSE i \in 1..Len(metadata) :
        metadata[i].id = file_id /\ \A j \in 1..(i - 1) : metadata[j].id # file_id

\* metadata.pop(i)
Pop(metadata, i) == SubSeq(metadata, 1, i - 1) \o SubSeq(metadata, i + 1, Len(metadata))

DeleteNotFoundSaves(request, metadata) ==
    [request EXCEPT !.pc = "save", !.loaded = metadata, !.metadata = metadata]

\* lines 377 and 409: no record has the id; nothing is deleted or saved
DeleteNotFound(request, metadata) ==
    Finish([request EXCEPT !.loaded = metadata, !.metadata = metadata],
           Response(404, "File not found"))

\* lines 369-375 and 409: load, look the id up; an unknown id is answered
\* not-found at once
DeleteBegin(p) ==
    /\ Me(p).pc = "idle"
    /\ \E file_id \in 1..nextId :
          LET metadata == load_metadata(metaFile)
          IN  IF ~Parseable(metaFile)
              THEN Set(p, Finish(DeleteRequest(file_id), Response(500, "JSONDecodeError")))
              ELSE IF ~HasId(metadata, file_id)
              THEN Set(p, DeleteNotFound(DeleteRequest(file_id), metadata))
              ELSE Set(p, [DeleteRequest(file_id) EXCEPT
                              !.pc = "delete_blobs",
                              !.loaded = metadata,
                              !.file_to_delete = metadata[FindId(metadata, file_id)],
                              !.metadata = Pop(metadata, FindId(metadata, file_id))])
    /\ UNCHANGED <<call, env, metaFile, localBlobs, s3Blobs, dirs, backups, clock, nextId, mig>>

RecordFolderFlat(rec) == NoFolder

\* lines 381-385 and 422-430: the folder a record's blob lives in
RecordFolder(rec) == IF rec.folder_path # NoFolder THEN rec.folder_path ELSE NoFolder

\* line 379
DeletesRemote(rec) == AppUseS3 /\ rec.s3_url # NoUrl

\* the ways s3_client.delete_object ends: the object is deleted; a
\* ClientError, which line 388 swallows; any other error, which nothing catches
RemoteDeleteOutcomes == {"ok", "ClientError", "error"}

\* the ways os.remove ends
LocalRemoveOutcomes == {"ok", "OSError"}

\* lines 377-404: the remote object is deleted when the record has a URL,
\* then the local file when it exists
DeleteBlobs(p) ==
    LET w == Me(p)
        rec == w.file_to_delete
        s3_key == S3Key(RecordFolder(rec), rec.stored_name)
        local_path == LocalPath(RecordFolder(rec), rec.stored_name)
    IN  /\ w.pc = "delete_blobs"
        /\ \E remote \in {o \in RemoteDeleteOutcomes : DeletesRemote(rec) \/ o = "ok"},
              local \in {o \in LocalRemoveOutcomes : LocalExists(local_path) \/ o = "ok"} :
              /\ s3Blobs' = IF DeletesRemote(rec) /\ remote = "ok"
                            THEN s3Blobs \ {s3_key} ELSE s3Blobs
              /\ localBlobs' = IF remote # "error" /\ local = "ok"
                               THEN RemoveLocal(localBlobs, local_path) ELSE localBlobs
              /\ Set(p, IF remote = "error" THEN Finish(w, Response(500, "delete_object"))
                        ELSE IF local = "OSError" THEN Finish(w, Response(500, "OSError"))
                        ELSE [w EXCEPT !.pc = "save"])
        /\ UNCHANGED <<call, env, metaFile, dirs, backups, clock, nextId, mig>>

(***************************************************************************)
(* serve_file                                                              *)
(***************************************************************************)
\* lines 414-435, as a function of the stores
ServeFile(file, blobs, file_id) ==
    LET metadata == load_metadata(file)
    IN  IF ~Parseable(file) THEN Response(500, "JSONDecodeError")
        ELSE IF ~HasId(metadata, file_id) THEN Response(404, "")
        ELSE LET rec == metadata[FindId(metadata, file_id)]
                 file_path == LocalPath(RecordFolder(rec), rec.stored_name)
             IN  IF AppUseS3 /\ rec.s3_url # NoUrl
                 THEN [Response(302, "") EXCEPT !.location = rec.s3_url]
                 ELSE IF \E b \in blobs : b.path = file_path
                 THEN [Response(200, "") EXCEPT !.location = file_path]
                 ELSE Response(404, "")

serve_file(p) ==
    /\ Me(p).pc = "idle"
    /\ \E file_id \in 1..nextId :
          Set(p, Finish([Idle EXCEPT !.op = "serve", !.file_id = file_id],
                        ServeFile(metaFile, localBlobs, file_id)))
    /\ UNCHANGED <<call, env, metaFile, localBlobs, s3Blobs, dirs, backups, clock, nextId, mig>>

\* the response is sent and the worker takes the next request
Return(p) ==
    /\ Me(p).pc = "done"
    /\ Set(p, Idle)
    /\ UNCHANGED <<call, env, metaFile, localBlobs, s3Blobs, dirs, backups, clock, nextId, mig>>

(***************************************************************************)
(* migrate_existing_files.py                                               *)
(***************************************************************************)
\* the script reads USE_S3 as the environment gives it and builds a client
\* only when a bucket is configured as well (lines 31-45)
MigUseS3 == env.USE_S3

MigHasClient == env.USE_S3 /\ env.S3_BUCKET

MigIdle == [pc |-> "idle", dry_run |-> FALSE,
            metadata |-> <<>>, files_to_migrate |-> <<>>, k |-> 0,
            migrated_count |-> 0, error_count |-> 0, already_organized |-> 0,
            pos |-> 0,
            before |-> [metadata |-> <<>>, localBlobs |-> {}, s3Blobs |-> {}],
            log |-> <<>>]

\* what a run leaves on the terminal
Report(dry_run, result, migrated, errors, organized) ==
    [dry_run |-> dry_run, result |-> result,
     migrated |-> migrated, errors |-> errors, organized |-> organized]

\* the run is over: its report is kept, its locals are dropped
Exit(m, result) ==
    [MigIdle EXCEPT !.log = Append(m.log,
                        Report(m.dry_run, result, m.migrated_count, m.error_count,
                               m.already_organized)),
                    !.before = m.before]

\* file_meta.get("folder_path")
Organized(rec) == rec.folder_path # NoFolder

\* lines 166-170: the positions of the records to migrate, in order
RECURSIVE LegacyFrom(_, _)
LegacyFrom(metadata, i) ==
    IF i > Len(metadata) THEN <<>>
    ELSE (IF Organized(metadata[i]) THEN <<>> ELSE <<i>>) \o LegacyFrom(metadata, i + 1)

FilesToMigrateAll(metadata) == [i \in 1..Len(metadata) |-> i]

FilesToMigrate(metadata) == LegacyFrom(metadata, 1)

PreflightMetaOnly == env.meta_writable

\* lines 129-154
PreflightOk == env.meta_writable /\ env.root_writable

WritesBackupNever(dry_run) == FALSE

\* lines 158-160: the run writes its backup
WritesBackup(dry_run) == ~dry_run

\* backup_metadata(): shutil.copy2 of the metadata file
backup_metadata(files) == IF metaFile.exists THEN Append(files, metaFile) ELSE files

\* main() and lines 117-177 of migrate_files: everything before the loop
MigrateStart ==
    /\ mig.pc = "idle"
    /\ Len(mig.log) < MaxRuns
    /\ \A p \in Workers : Me(p).pc = "idle"
    /\ \E dry_run \in BOOLEAN :
          LET m == [mig EXCEPT !.dry_run = dry_run,
                               !.before = [metadata |-> load_metadata(metaFile),
                                           localBlobs |-> localBlobs,
                                           s3Blobs |-> s3Blobs]]
              metadata == load_metadata(metaFile)
              todo == FilesToMigrate(metadata)
          IN  IF ~metaFile.exists
              THEN mig' = Exit(m, "no metadata file") /\ UNCHANGED backups
              ELSE IF ~Parseable(metaFile)
              THEN mig' = Exit(m, "failed") /\ UNCHANGED backups
              ELSE IF metadata = <<>>
              THEN mig' = Exit(m, "nothing to migrate") /\ UNCHANGED backups
              ELSE IF ~dry_run /\ ~PreflightOk
              THEN mig' = Exit(m, "permission denied") /\ UNCHANGED backups
              ELSE /\ backups' = IF WritesBackup(dry_run) THEN backup_metadata(backups)
                                 ELSE backups
                   /\ mig' = IF todo = <<>>
                             THEN Exit([m EXCEPT !.already_organized = Len(metadata)],
                                       "already organized")
                             ELSE [m EXCEPT !.pc = "migrate_loop",
                                            !.metadata = metadata,
                                            !.files_to_migrate = todo,
                                            !.k = 1,
                                            !.already_organized = Len(metadata) - Len(todo)]
    /\ UNCHANGED <<call, env, metaFile, localBlobs, s3Blobs, dirs, clock, nextId, proc>>

\* line 197
S3FileExists(rec) == MigUseS3 /\ rec.s3_url # NoUrl

\* the ways copy_s3_object(old_key, new_key) can go: <<copied, deleted>>.
\* Without a client nothing is tried; a missing source cannot be copied; the
\* old object is deleted only after a copy
S3MoveOutcomes(old_key) ==
    { o \in { <<FALSE, FALSE>>, <<TRUE, FALSE>>, <<TRUE, TRUE>> } :
        o[1] => (MigHasClient /\ old_key \in s3Blobs) }

copy_s3_object_copy_only(outcome) == outcome[1]

\* lines 97-112: True only when both calls went through
copy_s3_object(outcome) == outcome[1] /\ outcome[2]

MovesAlways(dry_run) == TRUE

\* line 204: the branch of the loop that moves blobs
Moves(dry_run) == ~dry_run

\* lines 182-250, one turn of the loop
MigrateRecord ==
    LET i == mig.files_to_migrate[mig.k]
        file_meta == mig.metadata[i]
        folder_path == generate_upload_folder(file_meta.uploader_name, file_meta.upload_time)
        old_local_path == LocalPath(NoFolder, file_meta.stored_name)
        new_local_path == LocalPath(folder_path, file_meta.stored_name)
        local_file_exists == LocalExists(old_local_path)
        s3_file_exists == S3FileExists(file_meta)
        old_s3_key == S3Key(NoFolder, file_meta.stored_name)
        new_s3_key == S3Key(folder_path, file_meta.stored_name)
        failed == [mig EXCEPT !.error_count = @ + 1, !.k = @ + 1]
        counted == [mig EXCEPT !.migrated_count = @ + 1, !.k = @ + 1]
    IN  /\ mig.pc = "migrate_loop"
        /\ mig.k <= Len(mig.files_to_migrate)
        /\ IF ~local_file_exists /\ ~s3_file_exists
           THEN mig' = failed /\ UNCHANGED <<localBlobs, s3Blobs, dirs>>
           ELSE IF ~Moves(mig.dry_run)
           THEN mig' = counted /\ UNCHANGED <<localBlobs, s3Blobs, dirs>>
           ELSE \E move_ok \in {b \in BOOLEAN : local_file_exists \/ b},
                   s3 \in {o \in S3MoveOutcomes(old_s3_key) :
                              s3_file_exists \/ o = <<FALSE, FALSE>>} :
                   /\ dirs' = dirs \cup {folder_path}
                   /\ localBlobs' =
                        IF local_file_exists /\ move_ok
                        THEN RemoveLocal(RemoveLocal(localBlobs, old_local_path), new_local_path)
                                \cup {[path |-> new_local_path, size |-> GetSize(old_local_path)]}
                        ELSE localBlobs
                   /\ s3Blobs' =
                        IF move_ok /\ s3_file_exists
                        THEN (IF s3[1] THEN s3Blobs \cup {new_s3_key} ELSE s3Blobs)
                                \ (IF s3[2] THEN {old_s3_key} ELSE {})
                        ELSE s3Blobs
                   /\ mig' =
                        IF ~move_ok THEN failed
                        ELSE IF s3_file_exists /\ ~copy_s3_object(s3) THEN failed
                        ELSE [counted EXCEPT
                                !.metadata[i].s3_url =
                                    IF s3_file_exists THEN S3Url(new_s3_key) ELSE @,
                                !.metadata[i].folder_path = folder_path,
                                !.metadata[i].full_path = <<folder_path, file_meta.stored_name>>]
        /\ UNCHANGED <<call, env, metaFile, backups, clock, nextId, proc>>

SavesAfterLoopAlways(m) == ~m.dry_run

SavesAfterLoopInverted(m) == m.dry_run /\ m.migrated_count > 0

\* line 253
SavesAfterLoop(m) == ~m.dry_run /\ m.migrated_count > 0

\* lines 252-273: after the loop
MigrateEnd ==
    /\ mig.pc = "migrate_loop"
    /\ mig.k > Len(mig.files_to_migrate)
    /\ mig' = IF SavesAfterLoop(mig) THEN [mig EXCEPT !.pc = "save", !.pos = 0]
              ELSE Exit(mig, "summary")
    /\ UNCHANGED <<call, env, metaFile, localBlobs, s3Blobs, dirs, backups, clock, nextId, proc>>

\* lines 79-82: save_metadata of the script
MigrateSaveOpen ==
    /\ mig.pc = "save"
    /\ metaFile' = OpenTruncate
    /\ mig' = [mig EXCEPT !.pc = "save_write"]
    /\ UNCHANGED <<call, env, localBlobs, s3Blobs, dirs, backups, clock, nextId, proc>>

MigrateSaveWrite ==
    /\ mig.pc = "save_write"
    /\ mig.pos < Len(mig.metadata)
    /\ metaFile' = WriteAt(metaFile, mig.pos, mig.metadata[mig.pos + 1])
    /\ mig' = [mig EXCEPT !.pos = @ + 1]
    /\ UNCHANGED <<call, env, localBlobs, s3Blobs, dirs, backups, clock, nextId, proc>>

MigrateSaveClose ==
    /\ mig.pc = "save_write"
    /\ mig.pos = Len(mig.metadata)
    /\ metaFile' = CloseAt(metaFile, mig.pos)
    /\ mig' = Exit(mig, "summary")
    /\ UNCHANGED <<call, env, localBlobs, s3Blobs, dirs, backups, clock, nextId, proc>>

(***************************************************************************)
(* The service, one request at a time.                                     *)
(***************************************************************************)

Configs == { [USE_S3 |-> FALSE, S3_BUCKET |-> FALSE, meta_writable |-> TRUE, root_writable |-> TRUE],
             [USE_S3 |-> TRUE, S3_BUCKET |-> TRUE, meta_writable |-> TRUE, root_writable |-> TRUE] }

Init ==
    /\ env \in Configs
    /\ metaFile = NoFile
    /\ localBlobs = {}
    /\ s3Blobs = {}
    /\ dirs = {}
    /\ backups = <<>>
    /\ clock = 0
    /\ nextId = 1
    /\ proc = [p \in Workers |-> Idle]
    /\ mig = MigIdle
    /\ call = NoCall

Handler(p) ==
    \/ UploadReject(p)
    \/ UploadBegin(p)
    \/ UploadFile(p)
    \/ UploadFileIndexError(p)
    \/ UploadSkip(p)
    \/ UploadEnd(p)
    \/ SaveOpen(p)
    \/ SaveWrite(p)
    \/ SaveClose(p)
    \/ DeleteBegin(p)
    \/ DeleteBlobs(p)
    \/ serve_file(p)
    \/ Return(p)

Next == Handler("w1")

Spec == Init /\ [][Next]_vars

(***************************************************************************)
(* The same service on a disk that can fail: file.save and json.dump may   *)
(* raise, and nothing in the handlers catches either.                      *)
(***************************************************************************)
\* line 266: file.save raises; the request ends in a server error
UploadFileSaveError(p) ==
    LET w == Me(p)
    IN  /\ w.pc = "upload_loop"
        /\ w.idx <= Len(w.files)
        /\ Accepted(w.files[w.idx])
        /\ HasDot(secure_filename(w.files[w.idx].filename))
        /\ nextId' = nextId + 1
        /\ Set(p, Finish(w, Response(500, "OSError")))
        /\ UNCHANGED <<call, env, metaFile, localBlobs, s3Blobs, dirs, backups, clock, mig>>

\* lines 144-145: a write of json.dump raises; the file keeps what was
\* written before
SaveError(p) ==
    LET w == Me(p)
    IN  /\ w.pc = "save_write"
        /\ Set(p, Finish(w, Response(500, "OSError")))
        /\ UNCHANGED <<call, env, metaFile, localBlobs, s3Blobs, dirs, backups, clock, nextId, mig>>

NextFaulty ==
    \/ Next
    \/ UploadFileSaveError("w1")
    \/ SaveError("w1")

SpecFaulty == Init /\ [][NextFaulty]_vars

(***************************************************************************)
(* The migration tool, run on a collection that an earlier, flat-layout    *)
(* deployment left behind, while the service is stopped.                   *)
(***************************************************************************)
LegacyName == <<"a">>

LegacyStored(i) == <<i, <<"j", "p", "g">>>>

\* a record of the flat layout: no folder_path, the blob directly under the
\* root or under the key prefix
LegacyRecord(i, remote) ==
    [id |-> i,
     original_name |-> <<"a", ".", "j", "p", "g">>,
     stored_name |-> LegacyStored(i),
     folder_path |-> NoFolder,
     full_path |-> NoFolder,
     upload_time |-> i,
     uploader_name |-> LegacyName,
     uploader_email |-> <<>>,
     file_type |-> "image",
     file_size |-> IF remote THEN NoSize ELSE 1,
     s3_url |-> IF remote THEN S3Url(S3Key(NoFolder, LegacyStored(i))) ELSE NoUrl]

\* a record as upload_files writes it, stored locally
OrganizedRecord(i) ==
    FileMetadata(i, <<"a", ".", "j", "p", "g">>, LegacyStored(i),
                 generate_upload_folder(LegacyName, i), i, LegacyName, <<>>, 1, NoUrl)

RecordKinds(i) == {LegacyRecord(i, FALSE), LegacyRecord(i, TRUE), OrganizedRecord(i)}

Collections ==
    UNION { {c \in [1..n -> UNION {RecordKinds(i) : i \in 1..n}] :
                \A i \in 1..n : c[i] \in RecordKinds(i)} : n \in 0..MaxLegacy }

OrganizedBlobs(c) ==
    { [path |-> LocalPath(c[i].folder_path, c[i].stored_name), size |-> 1] :
        i \in {j \in 1..Len(c) : Organized(c[j])} }

LegacyLocal(c) ==
    { [path |-> LocalPath(NoFolder, c[i].stored_name), size |-> 1] :
        i \in {j \in 1..Len(c) : ~Organized(c[j])} }

LegacyRemote(c) ==
    { S3Key(NoFolder, c[i].stored_name) :
        i \in {j \in 1..Len(c) : ~Organized(c[j]) /\ c[j].s3_url # NoUrl} }

MigrateConfigs ==
    { [USE_S3 |-> u, S3_BUCKET |-> b, meta_writable |-> mw, root_writable |-> rw] :
        u \in BOOLEAN, b \in BOOLEAN, mw \in BOOLEAN, rw \in BOOLEAN }

InitMigrate ==
    /\ env \in {c \in MigrateConfigs : (c.S3_BUCKET => c.USE_S3) /\ (c.meta_writable \/ c.root_writable)}
    /\ \E c \in Collections :
          /\ metaFile \in {NoFile, WholeFile(c)}
          /\ metaFile = NoFile => c = <<>>
          /\ \E l \in SUBSET LegacyLocal(c) : localBlobs = l \cup OrganizedBlobs(c)
          /\ s3Blobs \in SUBSET LegacyRemote(c)
          /\ dirs = {c[i].folder_path : i \in {j \in 1..Len(c) : Organized(c[j])}}
          /\ nextId = Len(c) + 1
    /\ backups = <<>>
    /\ clock = MaxClock
    /\ proc = [p \in Workers |-> Idle]
    /\ mig = MigIdle
    /\ call = NoCall

NextMigrate ==
    \/ MigrateStart
    \/ MigrateRecord
    \/ MigrateEnd
    \/ MigrateSaveOpen
    \/ MigrateSaveWrite
    \/ MigrateSaveClose

SpecMigrate == InitMigrate /\ [][NextMigrate]_vars

(***************************************************************************)
(* The service reading and deleting what earlier deployments left behind,  *)
(* with the migration tool run between requests.                           *)
(***************************************************************************)
\* the tool is not started while a request is being handled (MigrateStart),
\* and no request is taken while the tool runs
Quiet == mig.pc = "idle"

NextDeployed ==
    \/ NextMigrate
    \/ Quiet /\ serve_file("w1")
    \/ Quiet /\ DeleteBegin("w1")
    \/ Quiet /\ DeleteBlobs("w1")
    \/ Quiet /\ SaveOpen("w1")
    \/ Quiet /\ SaveWrite("w1")
    \/ Quiet /\ SaveClose("w1")
    \/ Quiet /\ Return("w1")

\* the deployments the service itself accepts (app.py resets USE_S3 when no
\* bucket is configured), on writable storage
InitDeployed == InitMigrate /\ env \in Configs

SpecDeployed == InitDeployed /\ [][NextDeployed]_vars

(***************************************************************************)
(* sanitize_folder_name on its own, applied to a name and then to its own *)
(* result.                                                                 *)
(***************************************************************************)
\* a letter, a digit, white space, the three characters secure_filename
\* keeps, and a character it removes
NameChars == {"a", "1", " ", ".", "_", "-", "!"}

Names == UNION {[1..n -> NameChars] : n \in 0..MaxNameLen}

InitSanitize ==
    /\ env \in Configs
    /\ metaFile = NoFile
    /\ localBlobs = {}
    /\ s3Blobs = {}
    /\ dirs = {}
    /\ backups = <<>>
    /\ clock = 0
    /\ nextId = 1
    /\ proc = [p \in Workers |-> Idle]
    /\ mig = MigIdle
    /\ \E name \in Names : call = [NoCall EXCEPT !.pc = "called", !.name = name]

\* clean_name = sanitize_folder_name(uploader_name)
Sanitize ==
    /\ call.pc = "called"
    /\ call' = [call EXCEPT !.pc = "returned", !.sanitized = sanitize_folder_name(call.name)]
    /\ UNCHANGED <<env, metaFile, localBlobs, s3Blobs, dirs, backups, clock, nextId, proc, mig>>

\* the result is sanitized once more, as when a folder name is used as a name
SanitizeAgain ==
    /\ call.pc = "returned"
    /\ call' = [call EXCEPT !.pc = "twice", !.again = sanitize_folder_name(call.sanitized)]
    /\ UNCHANGED <<env, metaFile, localBlobs, s3Blobs, dirs, backups, clock, nextId, proc, mig>>

NextSanitize ==
    \/ Sanitize
    \/ SanitizeAgain

SpecSanitize == InitSanitize /\ [][NextSanitize]_vars

(***************************************************************************)
(* The service with two requests in flight: the handlers share the files   *)
(* and take no lock.                                                       *)
(***************************************************************************)
\* the clients send uploads of one file with a usable name
WellFormed(w) ==
    w.op = "upload" =>
        /\ Len(w.files) = 1
        /\ Accepted(w.files[1]) /\ HasDot(secure_filename(w.files[1].filename))

Request(p) ==
    \/ UploadBegin(p) /\ WellFormed(proc'[p])
    \/ UploadFile(p)
    \/ UploadEnd(p)
    \/ SaveOpen(p)
    \/ SaveWrite(p)
    \/ SaveClose(p)
    \/ DeleteBegin(p)
    \/ DeleteBlobs(p)
    \/ serve_file(p)
    \/ Return(p)

NextConcurrent ==
    \/ Request("w1")
    \/ Request("w2")

\* local storage only
InitConcurrent == Init /\ ~env.USE_S3

SpecConcurrent == InitConcurrent /\ [][NextConcurrent]_vars

(***************************************************************************)
(* Properties.                                                             *)
(***************************************************************************)
\* the records the metadata file holds, whole document or not
Persisted == {metaFile.recs[i] : i \in 1..Len(metaFile.recs)} \ {Junk}

\* the key a record's URL points to
UrlKey(rec) == rec.s3_url[2]

\* the files of a request that carry a name with an allowed extension
ValidFiles(files) == SelectSeq(files, LAMBDA f : f.filename # <<>> /\ allowed_file(f.filename))

\* a worker whose upload passed validation
Uploading(w) == w.op = "upload" /\ w.name # <<>> /\ FilesGiven(w.files)

\* C1: once an upload with a name and at least one named file has been
\* answered, the metadata file holds the collection it held before followed
\* by one record per valid file, in submission order; the answer is a success
\* listing those records' names, and an error only when no file is valid.
C1_UploadRecordsEveryValidFile ==
    \A p \in Workers :
        LET w == proc[p]
            valid == ValidFiles(w.files)
            now == load_metadata(metaFile)
        IN  (w.pc = "done" /\ Uploading(w)) =>
                /\ Parseable(metaFile)
                /\ Len(now) = Len(w.loaded) + Len(valid)
                /\ SubSeq(now, 1, Len(w.loaded)) = w.loaded
                /\ \A k \in 1..Len(valid) :
                      now[Len(w.loaded) + k].original_name = secure_filename(valid[k].filename)
                /\ IF valid = <<>> THEN w.resp.status = 400
                   ELSE /\ w.resp.status = 200
                        /\ w.resp.files =
                              [k \in 1..Len(valid) |-> now[Len(w.loaded) + k].original_name]

\* C2: a request whose name is empty after trimming, or that carries no
\* file or only files without a name, is answered with a validation error in
\* the step that receives it, and that step changes neither the metadata
\* file nor the local or remote blobs nor the folders.
C2_InvalidUploadHasNoEffect ==
    [][\A p \in Workers :
          (/\ proc[p].pc = "idle"
           /\ proc'[p].pc # "idle"
           /\ proc'[p].op = "upload"
           /\ \/ proc'[p].name = <<>>
              \/ \A i \in 1..Len(proc'[p].files) : proc'[p].files[i].filename = <<>>)
          => /\ proc'[p].pc = "done"
             /\ proc'[p].resp.status = 400
             /\ UNCHANGED <<metaFile, localBlobs, s3Blobs, dirs, backups>>]_vars

C2_Witness ==
    \E p \in Workers :
        /\ proc[p].pc = "done" /\ proc[p].op = "upload" /\ proc[p].resp.status = 400
        /\ proc[p].name = <<>>
        /\ \E i \in 1..Len(proc[p].files) : allowed_file(proc[p].files[i].filename)

\* the records an upload in progress has made so far
BatchRecords(w) == {w.metadata[k] : k \in (Len(w.loaded) + 1)..Len(w.metadata)}

\* C3: in every state during or after an upload, the metadata file holds
\* either none of the batch's records or all of them.
C3_BatchAllOrNothing ==
    \A p \in Workers :
        LET w == proc[p]
        IN  (w.pc # "idle" /\ Uploading(w)) =>
                \/ BatchRecords(w) \cap Persisted = {}
                \/ /\ w.pc \in {"save_write", "done"}
                   /\ BatchRecords(w) \subseteq Persisted

\* a worker whose delete request found its id in the collection
DeletingPresent(w) == w.op = "delete" /\ HasId(w.loaded, w.file_id)

\* C4: once a delete of an id that was in the collection has been answered,
\* the metadata file holds the collection without that one record, the others
\* unchanged and in order, and serving that id answers not-found.
C4_DeleteRemovesExactlyOne ==
    \A p \in Workers :
        LET w == proc[p]
        IN  (w.pc = "done" /\ DeletingPresent(w)) =>
                /\ Parseable(metaFile)
                /\ load_metadata(metaFile) = Pop(w.loaded, FindId(w.loaded, w.file_id))
                /\ ServeFile(metaFile, localBlobs, w.file_id).status = 404

\* C5: a delete of an id the collection does not hold is answered not-found
\* in the step that receives it, and that step changes neither the metadata
\* file nor any local or remote blob.
C5_DeleteUnknownHasNoEffect ==
    [][\A p \in Workers :
          (/\ proc[p].pc = "idle"
           /\ proc'[p].pc # "idle"
           /\ proc'[p].op = "delete"
           /\ \A i \in 1..Len(metaFile.recs) : metaFile.recs[i].id # proc'[p].file_id)
          => /\ proc'[p].pc = "done"
             /\ proc'[p].resp.status = 404
             /\ UNCHANGED <<metaFile, localBlobs, s3Blobs, dirs, backups>>]_vars

C5_Witness ==
    \E p \in Workers :
        /\ proc[p].pc = "done" /\ proc[p].op = "delete" /\ proc[p].resp.status = 404
        /\ Len(metaFile.recs) > 0

\* C6: a delete of an id that was in the collection is answered with success
\* and leaves the metadata file without that record, whatever became of the
\* remote delete call and of the removal of the local file.
C6_BlobFailureNeverBlocksRemoval ==
    \A p \in Workers :
        LET w == proc[p]
        IN  (w.pc = "done" /\ DeletingPresent(w)) =>
                /\ w.resp.status = 200
                /\ \A i \in 1..Len(metaFile.recs) : metaFile.recs[i].id # w.file_id

\* the blob a record's fields point to is there
Backed(rec, local, remote) ==
    IF rec.s3_url # NoUrl THEN UrlKey(rec) \in remote
    ELSE \E b \in local : b.path = LocalPath(RecordFolder(rec), rec.stored_name)

\* C7: between requests, every record of the metadata file has its blob: the
\* remote object its URL names when it has a URL, the local file under its
\* folder otherwise.
C7_EveryRecordHasItsBlob ==
    (\A p \in Workers : proc[p].pc \in {"idle", "done"}) =>
        /\ Parseable(metaFile)
        /\ \A i \in 1..Len(metaFile.recs) : Backed(metaFile.recs[i], localBlobs, s3Blobs)

C7_Witness ==
    \E p \in Workers :
        /\ proc[p].pc = "done" /\ proc[p].op = "delete" /\ proc[p].resp.status = 200
        /\ \E i \in 1..Len(metaFile.recs) : metaFile.recs[i].s3_url # NoUrl
        /\ \E k \in s3Blobs : \A i \in 1..Len(metaFile.recs) :
              metaFile.recs[i].s3_url = NoUrl \/ UrlKey(metaFile.recs[i]) # k

\* a run of the migration tool has ended and none is under way
Ran(n) == mig.pc = "idle" /\ Len(mig.log) = n

\* what serve_file would find for a record, given the blobs
Retrievable(rec, local, remote) ==
    IF AppUseS3 /\ rec.s3_url # NoUrl THEN UrlKey(rec) \in remote
    ELSE \E b \in local : b.path = LocalPath(RecordFolder(rec), rec.stored_name)

\* the blobs of a legacy record are where the flat layout puts them
AtLegacyLocations(rec, local, remote) ==
    /\ \A b \in local : b.path = LocalPath(NoFolder, rec.stored_name) => b \in localBlobs
    /\ S3Key(NoFolder, rec.stored_name) \in remote => S3Key(NoFolder, rec.stored_name) \in s3Blobs

\* C8: after a run that is not a dry run, every record that could be served
\* before the run can be served from where its fields now point, and a record
\* that is still legacy has each of its blobs where it was.
C8_MigrationLosesNothing ==
    (Ran(1) /\ ~mig.log[1].dry_run /\ Parseable(metaFile)) =>
        LET old == mig.before.metadata
            new == load_metadata(metaFile)
        IN  /\ Len(new) = Len(old)
            /\ \A i \in 1..Len(old) :
                  /\ Retrievable(old[i], mig.before.localBlobs, mig.before.s3Blobs)
                        => Retrievable(new[i], localBlobs, s3Blobs)
                  /\ (~Organized(old[i]) /\ ~Organized(new[i]))
                        => AtLegacyLocations(old[i], mig.before.localBlobs, mig.before.s3Blobs)

\* two runs in a row, neither a dry run
RanTwice == Ran(2) /\ ~mig.log[1].dry_run /\ ~mig.log[2].dry_run

\* the second run found and left everything as the first run left it
SecondRunIdle ==
    /\ mig.log[2].migrated = 0
    /\ mig.log[2].errors = 0
    /\ load_metadata(metaFile) = mig.before.metadata
    /\ localBlobs = mig.before.localBlobs
    /\ s3Blobs = mig.before.s3Blobs

\* C9, as claimed: whatever the collection and the blobs, the second of two
\* runs in a row reports nothing migrated and no error and changes nothing.
C9_SecondRunAlwaysIdle == RanTwice => SecondRunIdle

\* C9, amended: when the first run reported no error, the second of two runs
\* in a row reports nothing migrated and no error and leaves the collection
\* and the blobs as the first run left them.
C9_SecondRunIdleAfterCleanRun == (RanTwice /\ mig.log[1].errors = 0) => SecondRunIdle

C9_Witness == RanTwice /\ mig.log[1].errors = 0 /\ mig.log[1].migrated = MaxLegacy

\* a step of a dry run: the step that starts it, or a step while it is under way
DryRunStep ==
    \/ mig.pc # "idle" /\ mig.dry_run
    \/ mig.pc = "idle" /\ mig'.pc # "idle" /\ mig'.dry_run
    \/ mig.pc = "idle" /\ Len(mig'.log) > Len(mig.log) /\ mig'.log[Len(mig'.log)].dry_run

\* C10: no step of a dry run changes the metadata file, a local blob, a
\* remote object, the folders or the backups.
C10_DryRunChangesNothing ==
    [][DryRunStep => UNCHANGED <<metaFile, localBlobs, s3Blobs, dirs, backups>>]_vars

C10_Witness ==
    /\ Ran(1) /\ mig.log[1].dry_run /\ mig.log[1].result = "summary"
    /\ mig.log[1].migrated = MaxLegacy
    /\ \E i \in 1..Len(metaFile.recs) : metaFile.recs[i].s3_url # NoUrl

\* a step that starts a run of the migration tool which is not a dry run
StartsRealRun ==
    /\ mig.pc = "idle"
    /\ \/ mig'.pc # "idle" /\ ~mig'.dry_run
       \/ Len(mig'.log) > Len(mig.log) /\ ~mig'.log[Len(mig'.log)].dry_run

\* C11: when the metadata file or the upload root is not writable, the step
\* that starts a run which is not a dry run also ends it, and changes neither
\* the metadata file nor a local or remote blob nor the folders nor the
\* backups.
C11_PermissionFailureAbortsUntouched ==
    [][(StartsRealRun /\ ~(env.meta_writable /\ env.root_writable)) =>
          /\ mig'.pc = "idle"
          /\ UNCHANGED <<metaFile, localBlobs, s3Blobs, dirs, backups>>]_vars

C11_Witness ==
    /\ Ran(1) /\ ~mig.log[1].dry_run /\ mig.log[1].result = "permission denied"
    /\ env.meta_writable /\ ~env.root_writable
    /\ \E i \in 1..Len(metaFile.recs) :
          /\ ~Organized(metaFile.recs[i])
          /\ LocalExists(LocalPath(NoFolder, metaFile.recs[i].stored_name))

\* a step that starts a run of the migration tool
StartsRun == mig.pc = "idle" /\ (mig'.pc # "idle" \/ Len(mig'.log) > Len(mig.log))

\* the metadata file holds a collection without a legacy record
NoLegacyRecord ==
    /\ Parseable(metaFile)
    /\ \A i \in 1..Len(load_metadata(metaFile)) : Organized(load_metadata(metaFile)[i])

\* C12: when no record of the collection is legacy, the step that starts a
\* run, dry or not, also ends it, and changes neither the metadata file nor
\* a blob nor the folders, and writes no backup.
C12_NoLegacyRunChangesNothing ==
    [][(StartsRun /\ NoLegacyRecord) =>
          /\ mig'.pc = "idle"
          /\ UNCHANGED <<metaFile, localBlobs, s3Blobs, dirs, backups>>]_vars

\* where the layout puts a record's local blob and its remote object
ResolvedPath(rec) ==
    IF rec.folder_path # NoFolder THEN <<rec.folder_path, rec.stored_name>>
    ELSE <<NoFolder, rec.stored_name>>

ResolvedKey(rec) ==
    IF rec.folder_path # NoFolder THEN <<"snap-drop-uploads", rec.folder_path, rec.stored_name>>
    ELSE <<"snap-drop-uploads", NoFolder, rec.stored_name>>

\* the service serves the record from the disk, not by a redirect
ServedLocally(rec) == ~(AppUseS3 /\ rec.s3_url # NoUrl)

\* what serving a locally stored record has to answer
ServedFromResolved(rec) ==
    LET resp == ServeFile(metaFile, localBlobs, rec.id)
    IN  IF \E b \in localBlobs : b.path = ResolvedPath(rec)
        THEN resp.status = 200 /\ resp.location = ResolvedPath(rec)
        ELSE resp.status = 404

\* between requests and runs, every locally stored record is served from its
\* resolved path, and a record with a folder, uploaded or migrated, is there
ServeResolves ==
    (mig.pc = "idle" /\ Parseable(metaFile) /\ \A p \in Workers : proc[p].pc \in {"idle", "done"}) =>
        \A i \in 1..Len(metaFile.recs) :
            LET rec == metaFile.recs[i]
            IN  ServedLocally(rec) =>
                    /\ ServedFromResolved(rec)
                    /\ Organized(rec) => ServeFile(metaFile, localBlobs, rec.id).status = 200

\* the step of a delete that removes the blobs removes the local file at the
\* resolved path and, at most, the remote object at the resolved key
DeleteResolves ==
    \A p \in Workers :
        (proc[p].pc = "delete_blobs" /\ proc'[p].pc = "save") =>
            LET rec == proc[p].file_to_delete
            IN  /\ localBlobs' = {b \in localBlobs : b.path # ResolvedPath(rec)}
                /\ s3Blobs' \in {s3Blobs, s3Blobs \ {ResolvedKey(rec)}}
                /\ (~AppUseS3 \/ rec.s3_url = NoUrl) => s3Blobs' = s3Blobs

\* C13: serving and deleting resolve a record's blob alike: under its
\* folder_path when it has one, directly under the root (or the key prefix)
\* when it has none; every locally stored record is served from that path,
\* and one with a folder, uploaded by the service or migrated, is found there.
C13_PathResolutionFolderAware == []ServeResolves /\ [][DeleteResolves]_vars

\* a migrated record, stored locally, has been served
C13_Witness ==
    \E p \in Workers :
        /\ proc[p].pc = "done" /\ proc[p].op = "serve" /\ proc[p].resp.status = 200
        /\ mig.pc = "idle" /\ Len(mig.log) > 0
        /\ \E i \in 1..Len(mig.before.metadata) :
              /\ mig.before.metadata[i].id = proc[p].file_id
              /\ ~Organized(mig.before.metadata[i])
        /\ \E i \in 1..Len(metaFile.recs) :
              /\ metaFile.recs[i].id = proc[p].file_id
              /\ Organized(metaFile.recs[i])
              /\ proc[p].resp.location = ResolvedPath(metaFile.recs[i])

\* C14: sanitizing the result of sanitize_folder_name gives that result
\* again, for every name of up to MaxNameLen characters.
C14_SanitizeIdempotent == call.pc = "twice" => call.again = call.sanitized

\* a step in which a handler loads the metadata file
Loads(p) ==
    /\ proc[p].pc = "idle"
    /\ proc'[p].pc # "idle"
    /\ proc'[p].op \in {"upload", "delete", "serve"}
    /\ proc'[p].resp.status # 400

\* C15: every load of the metadata file, whatever the other request is
\* doing, finds a whole document: the collection as some save left it, never
\* an empty or half-written file.
C15_LoadSeesWholeCollection ==
    [][\A p \in Workers : Loads(p) => Parseable(metaFile)]_vars

\* a worker whose request changed the collection and was answered with success
Mutated(w) ==
    /\ w.pc = "done" /\ w.resp.status = 200
    /\ w.op \in {"upload", "delete"}

\* both requests loaded the same collection, each before the other saved
BothLoadedFirst ==
    /\ Mutated(proc["w1"]) /\ Mutated(proc["w2"])
    /\ proc["w1"].loaded = proc["w2"].loaded

C17_SizeRecordedIffLocal ==
    \A rec \in Persisted :
        IF rec.s3_url = NoUrl
        THEN /\ rec.file_size # NoSize
             /\ \A b \in localBlobs :
                   b.path = LocalPath(rec.folder_path, rec.stored_name) => b.size = rec.file_size
        ELSE rec.file_size = NoSize

\* the earlier runs that got past the pre-flight checks without --dry-run
RealRunsBefore ==
    {i \in 1..Len(mig.log) :
        ~mig.log[i].dry_run /\ mig.log[i].result \in {"already organized", "summary"}}

\* a run that is not a dry run is past its pre-flight checks
RealRunUnderWay == mig.pc # "idle" /\ ~mig.dry_run

\* the newest backup is this run's, and holds the file as the run found it
BackedUp ==
    RealRunUnderWay =>
        /\ Len(backups) = Cardinality(RealRunsBefore) + 1
        /\ backups[Len(backups)] = WholeFile(mig.before.metadata)

\* the metadata file, the blobs and the folders change only in such a run
MutatesAfterBackup ==
    <<metaFile, localBlobs, s3Blobs, dirs>>' # <<metaFile, localBlobs, s3Blobs, dirs>> =>
        /\ RealRunUnderWay
        /\ backups' = backups

\* C18: from the first step of a run that is not a dry run and passed the
\* pre-flight checks, a backup holding the metadata file as the run found it
\* is in place, and the steps that move blobs or rewrite the file are steps
\* of such a run: no change comes before the backup.
C18_BackupPrecedesMutation == []BackedUp /\ [][MutatesAfterBackup]_vars

C18_Witness ==
    /\ RealRunUnderWay /\ mig.pc = "migrate_loop"
    /\ localBlobs # mig.before.localBlobs
    /\ s3Blobs # mig.before.s3Blobs
    /\ Len(backups) = 1

\* the record the loop of the migration tool is at
Current == mig.metadata[mig.files_to_migrate[mig.k]]

\* a turn of the loop of a run that is not a dry run
MigratesOne ==
    /\ mig.pc = "migrate_loop" /\ ~mig.dry_run
    /\ mig'.pc = "migrate_loop" /\ mig'.k = mig.k + 1

\* the blobs of a legacy record are at the new places and not at the old ones
MovedTo(rec, folder, local, remote) ==
    /\ (\E b \in localBlobs : b.path = <<NoFolder, rec.stored_name>>) =>
          /\ \E b \in local : b.path = <<folder, rec.stored_name>>
          /\ \A b \in local : b.path # <<NoFolder, rec.stored_name>>
    /\ (env.USE_S3 /\ rec.s3_url # NoUrl) =>
          /\ <<"snap-drop-uploads", folder, rec.stored_name>> \in remote
          /\ <<"snap-drop-uploads", NoFolder, rec.stored_name>> \notin remote

\* one turn of the loop: the record's fields change only together with a move
\* of all its blobs that went through; a record without a blob, or with a move
\* that failed, is counted as an error and keeps its fields
UpdatesAfterMoves ==
    MigratesOne =>
        LET i == mig.files_to_migrate[mig.k]
            old == mig.metadata[i]
            new == mig'.metadata[i]
            has_local == \E b \in localBlobs : b.path = <<NoFolder, old.stored_name>>
            has_remote == env.USE_S3 /\ old.s3_url # NoUrl
        IN  /\ \A j \in 1..Len(mig.metadata) : j # i => mig'.metadata[j] = mig.metadata[j]
            /\ new # old =>
                  /\ new.folder_path # NoFolder
                  /\ new.full_path = <<new.folder_path, old.stored_name>>
                  /\ MovedTo(old, new.folder_path, localBlobs', s3Blobs')
                  /\ new.s3_url # old.s3_url =>
                        has_remote /\ new.s3_url[2] \in s3Blobs'
                  /\ mig'.migrated_count = mig.migrated_count + 1
                  /\ mig'.error_count = mig.error_count
            /\ new = old =>
                  /\ mig'.error_count = mig.error_count + 1
                  /\ mig'.migrated_count = mig.migrated_count
            /\ (~has_local /\ ~has_remote) => new = old
            /\ ~MovedTo(old, generate_upload_folder(old.uploader_name, old.upload_time),
                        localBlobs', s3Blobs') => new = old

\* what a run that is not a dry run leaves in the metadata file
PersistsLoopResult ==
    (mig.pc = "idle" /\ Len(mig.log) > 0 /\ ~mig.log[Len(mig.log)].dry_run
        /\ mig.log[Len(mig.log)].result = "summary") =>
        /\ Parseable(metaFile)
        /\ Len(load_metadata(metaFile)) = Len(mig.before.metadata)
        /\ mig.log[Len(mig.log)].errors =
              Cardinality({i \in 1..Len(mig.before.metadata) :
                              /\ ~Organized(mig.before.metadata[i])
                              /\ load_metadata(metaFile)[i] = mig.before.metadata[i]})

\* C19: in a run that is not a dry run, a legacy record's folder_path,
\* full_path and remote URL change only in a turn of the loop in which all of
\* its blobs were moved; a record with no blob, or with a move that failed,
\* keeps every field, in memory and in the metadata file the run leaves, and
\* is counted as an error.
C19_RecordUpdatedOnlyAfterMoves == [][UpdatesAfterMoves]_vars /\ []PersistsLoopResult

C19_Witness ==
    /\ mig.pc = "idle" /\ Len(mig.log) = 1 /\ ~mig.log[1].dry_run
    /\ mig.log[1].migrated = 1 /\ mig.log[1].errors = 1
    /\ \E i \in 1..Len(metaFile.recs) :
          /\ metaFile.recs[i] = mig.before.metadata[i]
          /\ ~Organized(metaFile.recs[i])
          /\ metaFile.recs[i].s3_url # NoUrl
          /\ \E b \in localBlobs :
                b.path = <<generate_upload_folder(metaFile.recs[i].uploader_name,
                                                  metaFile.recs[i].upload_time),
                           metaFile.recs[i].stored_name>>
    /\ \E i \in 1..Len(metaFile.recs) :
          /\ Organized(metaFile.recs[i])
          /\ ~Organized(mig.before.metadata[i])
          /\ metaFile.recs[i].s3_url # mig.before.metadata[i].s3_url

\* a turn of the loop never ends the run: whatever becomes of the record, the
\* loop goes on to the next one, with one more migrated or one more error
LoopGoesOn ==
    (mig.pc = "migrate_loop" /\ mig.k <= Len(mig.files_to_migrate)) =>
        /\ mig'.pc = "migrate_loop"
        /\ mig'.k = mig.k + 1
        /\ mig'.files_to_migrate = mig.files_to_migrate
        /\ mig'.migrated_count + mig'.error_count = mig.migrated_count + mig.error_count + 1

\* the loop is left after the last record only, for the save exactly when a
\* record was migrated and the run is not a dry run
LoopEnds ==
    (mig.pc = "migrate_loop" /\ mig'.pc # "migrate_loop") =>
        /\ mig.k = Len(mig.files_to_migrate) + 1
        /\ mig.migrated_count + mig.error_count = Len(mig.files_to_migrate)
        /\ mig'.pc = (IF ~mig.dry_run /\ mig.migrated_count > 0 THEN "save" ELSE "idle")

\* the metadata file is written by the one save after the loop, which ends
\* the run with the whole collection in the file
SavesOnce ==
    /\ metaFile' # metaFile => mig.pc \in {"save", "save_write"}
    /\ (mig'.pc = "save" /\ mig.pc # "save") => mig.pc = "migrate_loop"
    /\ mig.pc = "save" => (mig'.pc = "save_write" /\ metaFile'.recs = <<>>)
    /\ mig.pc = "save_write" => mig'.pc \in {"save_write", "idle"}
    /\ (mig.pc = "save_write" /\ mig'.pc = "idle") => metaFile' = WholeFile(mig.metadata)

\* C20: a record that fails never stops the run: every legacy record gets its
\* turn, each counted as migrated or as an error, and after the last one the
\* collection is saved once, exactly when a record was migrated and the run
\* is not a dry run.
C20_FaultIsolationAndSingleSave == [][LoopGoesOn /\ LoopEnds /\ SavesOnce]_vars

\* a run whose first record failed and whose second was migrated and saved
C20_Witness ==
    /\ mig.pc = "idle" /\ Len(mig.log) = 1 /\ ~mig.log[1].dry_run
    /\ mig.log[1].errors = 1 /\ mig.log[1].migrated = 1
    /\ Len(metaFile.recs) = 2 /\ metaFile.closed
    /\ metaFile.recs[1] = mig.before.metadata[1] /\ ~Organized(metaFile.recs[1])
    /\ Organized(metaFile.recs[2]) /\ ~Organized(mig.before.metadata[2])

\* the files of the batch the loop has dealt with
Handled(w) == IF w.pc = "upload_loop" THEN SubSeq(w.files, 1, w.idx - 1) ELSE w.files

\* C21: an upload that passed validation is never cut short by a file: no
\* server error is answered, and at every point of the loop each file dealt
\* with so far is either passed over or, when its declared name ends in an
\* allowed extension, recorded under a fresh id with stored_name the id and
\* the lower-cased extension, its blob stored under folder_path/stored_name.
C21_AllowedFileNeverAborts ==
    \A p \in Workers :
        LET w == proc[p]
            valid == ValidFiles(Handled(w))
            batch == SubSeq(w.metadata, Len(w.loaded) + 1, Len(w.metadata))
        IN  (w.pc # "idle" /\ Uploading(w)) =>
                /\ w.resp.status # 500
                /\ w.pc = "done" => Handled(w) = w.files
                /\ Len(batch) = Len(valid)
                /\ \A k \in 1..Len(batch) :
                      /\ batch[k].stored_name =
                            <<batch[k].id, Lower(AfterLastDot(valid[k].filename))>>
                      /\ batch[k].folder_path = w.folder_path
                      /\ \A j \in 1..Len(w.metadata) : j # Len(w.loaded) + k =>
                            w.metadata[j].id # batch[k].id
                      /\ IF batch[k].s3_url # NoUrl
                         THEN <<"snap-drop-uploads", w.folder_path, batch[k].stored_name>> \in s3Blobs
                         ELSE \E b \in localBlobs : b.path = <<w.folder_path, batch[k].stored_name>>

\* a delete of an id that was in the collection has been answered with success
Deleted(w) == w.pc = "done" /\ w.op = "delete" /\ w.resp.status = 200

\* C22: once a delete has been answered with success, the metadata file
\* holds no record with that id, whatever the other request, which may have
\* loaded the collection before the delete saved, writes afterwards.
C22_DeleteIsDurable ==
    \A p \in Workers :
        Deleted(proc[p]) => \A rec \in Persisted : rec.id # proc[p].file_id

\* new is old but for the three fields the migration may set
SameButPlace(old, new) ==
    [new EXCEPT !.folder_path = old.folder_path,
                !.full_path = old.full_path,
                !.s3_url = old.s3_url] = old

\* the collection has the records of the collection the run loaded, in the
\* same order, the organized ones untouched
SameRecords(old, new) ==
    /\ Len(new) = Len(old)
    /\ \A i \in 1..Len(old) :
          /\ new[i].id = old[i].id
          /\ SameButPlace(old[i], new[i])
          /\ Organized(old[i]) => new[i] = old[i]

\* C23: the collection a run of the migration tool works on, and the one the
\* metadata file holds once the run has ended, have the records the run
\* loaded, in the same order and with the same ids; records with a folder are
\* unchanged, and the others differ at most in folder_path, full_path and the
\* remote URL.
C23_MigrationPreservesRecords ==
    /\ mig.pc \in {"migrate_loop", "save", "save_write"} =>
          SameRecords(mig.before.metadata, mig.metadata)
    /\ (mig.pc = "idle" /\ Len(mig.log) > 0) =>
          /\ Parseable(metaFile)
          /\ SameRecords(mig.before.metadata, load_metadata(metaFile))

C23_Witness ==
    /\ mig.pc = "idle" /\ Len(mig.log) = 1 /\ ~mig.log[1].dry_run
    /\ Parseable(metaFile)
    /\ \E i \in 1..Len(metaFile.recs) : Organized(mig.before.metadata[i])
    /\ \E j \in 1..Len(metaFile.recs) :
          /\ ~Organized(mig.before.metadata[j])
          /\ Organized(metaFile.recs[j])
          /\ metaFile.recs[j].s3_url # mig.before.metadata[j].s3_url

\* the report of the run that ended last
LastReport == mig.log[Len(mig.log)]

\* the positions of the records the last run found without a folder
LegacyBefore == {i \in 1..Len(mig.before.metadata) : ~Organized(mig.before.metadata[i])}

\* C24: in the summary of a run, migrated plus errors is the number of
\* records the run found without folder_path, already-organized is the number
\* it found with one, and in a run that is not a dry run migrated is the
\* number of records whose folder_path the run set in the metadata file.
C24_ReportPartitionsCollection ==
    (mig.pc = "idle" /\ Len(mig.log) > 0 /\ LastReport.result = "summary") =>
        /\ LastReport.migrated + LastReport.errors = Cardinality(LegacyBefore)
        /\ LastReport.organized = Len(mig.before.metadata) - Cardinality(LegacyBefore)
        /\ ~LastReport.dry_run =>
              /\ Parseable(metaFile)
              /\ LastReport.migrated =
                    Cardinality({i \in LegacyBefore : Organized(load_metadata(metaFile)[i])})

C24_Witness ==
    /\ mig.pc = "idle" /\ Len(mig.log) = 2
    /\ LastReport.result = "summary" /\ ~LastReport.dry_run
    /\ LastReport.migrated = 1 /\ LastReport.errors = 0 /\ LastReport.organized = 1
    /\ mig.log[1].result = "summary" /\ ~mig.log[1].dry_run
    /\ mig.log[1].migrated = 1 /\ mig.log[1].errors = 1

====
